---- MODULE Spec2Model ----
(***************************************************************************)
(* Model of src/main.py: get_stock_data (fetch, tag, pct_change, dropna,   *)
(* concat) and plot_stock_comparison (one Scatter trace per requested      *)
(* ticker, groupby summary, one Bar trace, show).                          *)
(*                                                                         *)
(* A DataFrame is a sequence of rows (records); a float is an exact        *)
(* reduced fraction [n, d]; NaN is the fraction with denominator 0.        *)
(* The market data provider (yf.download) is a function from ticker to a   *)
(* chronological OHLC series with defined prices, or it raises.            *)
(***************************************************************************)
EXTENDS Integers, Sequences, FiniteSets, TLC

\* ---- bounds of the model ----
MaxTickers == 3      \* longest requested ticker list
MaxLen == 3          \* longest series the provider returns

\* ---- program constant: "* 100  # Convert to percentage" ----
Hundred == 100

\* Ticker symbols, listed in ascending lexicographic (string) order.
TickerUniverse == <<"AAPL", "NVDA">>

Symbols == {TickerUniverse[k] : k \in 1..Len(TickerUniverse)}

Rank(s) == CHOOSE k \in 1..Len(TickerUniverse) : TickerUniverse[k] = s

VARIABLES tickers, provider, pc, i, calls, all_data, df, j, traces,
          summary_df, bar, shown, err

vars == <<tickers, provider, pc, i, calls, all_data, df, j, traces,
          summary_df, bar, shown, err>>

\* ------------------------------------------------------------------------
\* Sequences
\* ------------------------------------------------------------------------
SeqsUpTo(S, n) == UNION {[1..m -> S] : m \in 0..n}

RECURSIVE FlattenFrom(_, _)
FlattenFrom(frames, k) ==
    IF k > Len(frames) THEN <<>> ELSE frames[k] \o FlattenFrom(frames, k + 1)

Abs(x) == IF x < 0 THEN -x ELSE x

Max(a, b) == IF a >= b THEN a ELSE b

RECURSIVE GCD(_, _)
GCD(a, b) == IF b = 0 THEN a ELSE GCD(b, a % b)

\* ------------------------------------------------------------------------
\* Floats as exact fractions
\* ------------------------------------------------------------------------
NaN == [n |-> 0, d |-> 0]

IsNa(f) == f.d = 0

Norm(n, d) ==
    IF d = 0 THEN NaN
    ELSE LET g == GCD(Abs(n), Abs(d))
             s == IF d < 0 THEN -1 ELSE 1
         IN  [n |-> (s * n) \div g, d |-> (s * d) \div g]

FDiv(a, b) == Norm(a, b)

FMinusOne(f) == IF IsNa(f) THEN NaN ELSE Norm(f.n - f.d, f.d)

FTimes(f, k) == IF IsNa(f) THEN NaN ELSE Norm(f.n * k, f.d)

\* ------------------------------------------------------------------------
\* The provider: chronological series of rows [Date, Open, Close]
\* ------------------------------------------------------------------------
SeriesOf(closes) ==
    [t \in 1..Len(closes) |->
        [Date |-> t,
         Open |-> IF t = 1 THEN closes[1] ELSE closes[t - 1],
         Close |-> closes[t]]]

\* closing prices the provider quotes (positive; 3/2 and 2/3 give both a
\* terminating and a non-terminating percentage)
Prices == {2, 3}

AllSeries == {SeriesOf(c) : c \in SeqsUpTo(Prices, MaxLen)}

\* ------------------------------------------------------------------------
\* get_stock_data, loop body
\* ------------------------------------------------------------------------
\* Series.pct_change(): data / data.shift(1) - 1; the first element has no
\* predecessor and is NaN.
PctChangeWrongBase(c0, c1) == FTimes(FMinusOne(FDiv(c0, c1)), Hundred)

PctChange(c0, c1) == FTimes(FMinusOne(FDiv(c1, c0)), Hundred)

PctChangeColumn(raw) ==
    [t \in 1..Len(raw) |->
        IF t = 1 THEN NaN ELSE PctChange(raw[t - 1].Close, raw[t].Close)]

\* df['Ticker'] = ticker ; df['Pct Change'] = df['Close'].pct_change() * 100
WithColumns(raw, ticker) ==
    [t \in 1..Len(raw) |->
        [Date |-> raw[t].Date, Open |-> raw[t].Open, Close |-> raw[t].Close,
         Ticker |-> ticker, Pct_Change |-> PctChangeColumn(raw)[t]]]

IsRowComplete(row) == ~IsNa(row.Pct_Change)

DropNaKeepAll(frame) == frame

DropNa(frame) == SelectSeq(frame, IsRowComplete)

\* one iteration of the loop over tickers: the frame appended to all_data
Frame(raw, ticker) == DropNa(WithColumns(raw, ticker))

\* ------------------------------------------------------------------------
\* pd.concat(all_data)
\* ------------------------------------------------------------------------
ConcatRaisesIfAllEmpty(frames) == \A k \in 1..Len(frames) : frames[k] = <<>>

ConcatRaisesOnEmptyFrame(frames) ==
    Len(frames) = 0 \/ \E k \in 1..Len(frames) : frames[k] = <<>>

\* pd.concat raises ValueError("No objects to concatenate") on an empty list
ConcatRaises(frames) == Len(frames) = 0

RECURSIVE InsertByDate(_, _)
InsertByDate(row, rows) ==
    IF rows = <<>> THEN <<row>>
    ELSE IF row.Date < rows[1].Date THEN <<row>> \o rows
    ELSE <<rows[1]>> \o InsertByDate(row, Tail(rows))

RECURSIVE SortByDate(_)
SortByDate(rows) ==
    IF rows = <<>> THEN <<>>
    ELSE InsertByDate(rows[1], SortByDate(Tail(rows)))

ConcatSortedByDate(frames) == SortByDate(FlattenFrom(frames, 1))

Concat(frames) == FlattenFrom(frames, 1)

\* ------------------------------------------------------------------------
\* plot_stock_comparison
\* ------------------------------------------------------------------------
\* df[df['Ticker'] == ticker]
RowsOf(table, ticker) == SelectSeq(table, LAMBDA row : row.Ticker = ticker)

\* go.Scatter(x=index, y=Pct Change, name=ticker, customdata=[Open, Close])
Scatter(rows, ticker) ==
    [name |-> ticker,
     x |-> [t \in 1..Len(rows) |-> rows[t].Date],
     y |-> [t \in 1..Len(rows) |-> rows[t].Pct_Change],
     customdata |-> [t \in 1..Len(rows) |-> <<rows[t].Open, rows[t].Close>>]]

\* the traces fig.add_trace appends for one requested ticker
TraceSkippedWhenEmpty(table, ticker) ==
    IF RowsOf(table, ticker) = <<>> THEN <<>>
    ELSE <<Scatter(RowsOf(table, ticker), ticker)>>

TraceFor(table, ticker) == <<Scatter(RowsOf(table, ticker), ticker)>>

\* group keys of df.groupby('Ticker'): the distinct tickers present,
\* sorted ascending (sort=True is the default)
RECURSIVE FirstSeen(_, _)
FirstSeen(table, seen) ==
    IF table = <<>> THEN <<>>
    ELSE IF table[1].Ticker \in seen THEN FirstSeen(Tail(table), seen)
    ELSE <<table[1].Ticker>> \o
         FirstSeen(Tail(table), seen \cup {table[1].Ticker})

GroupKeysFirstSeen(table) == FirstSeen(table, {})

GroupKeys(table) ==
    SelectSeq(TickerUniverse,
              LAMBDA s : \E t \in 1..Len(table) : table[t].Ticker = s)

\* ('Close', 'first') and ('Close', 'last') within one group
AggFirstOfTable(table, ticker) == table[1].Close

AggFirst(table, ticker) == RowsOf(table, ticker)[1].Close

AggLast(table, ticker) ==
    RowsOf(table, ticker)[Len(RowsOf(table, ticker))].Close

\* (End_Price - Start_Price) / Start_Price * 100
OverallPctChange(start, end) == FTimes(FDiv(end - start, start), Hundred)

\* groupby(...).agg(...), the Overall_Pct_Change column, reset_index()
Summary(table) ==
    LET keys == GroupKeys(table)
    IN  [g \in 1..Len(keys) |->
            [Ticker |-> keys[g],
             Start_Price |-> AggFirst(table, keys[g]),
             End_Price |-> AggLast(table, keys[g]),
             Overall_Pct_Change |->
                 OverallPctChange(AggFirst(table, keys[g]),
                                  AggLast(table, keys[g]))]]

\* go.Bar(x=summary_df['Ticker'], y=summary_df['Overall_Pct_Change'])
Bar(summary) ==
    [x |-> [g \in 1..Len(summary) |-> summary[g].Ticker],
     y |-> [g \in 1..Len(summary) |-> summary[g].Overall_Pct_Change]]

\* where control goes when yf.download raises: there is no try/except in
\* get_stock_data, plot_stock_comparison or at module level
RetryPc == "fetch"

RaisedPc == "error"

\* ------------------------------------------------------------------------
\* State machine
\* ------------------------------------------------------------------------
Init ==
    /\ tickers \in SeqsUpTo(Symbols, MaxTickers)
    /\ provider \in [Symbols -> AllSeries]
    /\ \A s \in Symbols :
          (\A k \in 1..Len(tickers) : tickers[k] # s) => provider[s] = <<>>
    /\ pc = "fetch"
    /\ i = 1
    /\ calls = <<>>
    /\ all_data = <<>>
    /\ df = <<>>
    /\ j = 1
    /\ traces = <<>>
    /\ summary_df = <<>>
    /\ bar = <<>>
    /\ shown = FALSE
    /\ err = "none"

\* for ticker in tickers: download, tag, pct_change, dropna, append
FetchOk ==
    /\ pc = "fetch"
    /\ i <= Len(tickers)
    /\ calls' = Append(calls, tickers[i])
    /\ all_data' = Append(all_data, Frame(provider[tickers[i]], tickers[i]))
    /\ i' = i + 1
    /\ UNCHANGED <<tickers, provider, pc, df, j, traces, summary_df, bar,
                   shown, err>>

\* yf.download raises (network failure); nothing catches it
FetchRaise ==
    /\ pc = "fetch"
    /\ i <= Len(tickers)
    /\ calls' = Append(calls, tickers[i])
    /\ pc' = RaisedPc
    /\ err' = "provider"
    /\ UNCHANGED <<tickers, provider, i, all_data, df, j, traces,
                   summary_df, bar, shown>>

\* combined_df = pd.concat(all_data); return; df = get_stock_data(tickers);
\* make_subplots
ConcatOk ==
    /\ pc = "fetch"
    /\ i > Len(tickers)
    /\ ~ConcatRaises(all_data)
    /\ df' = <<Concat(all_data)>>
    /\ pc' = "trace"
    /\ UNCHANGED <<tickers, provider, i, calls, all_data, j, traces,
                   summary_df, bar, shown, err>>

ConcatRaise ==
    /\ pc = "fetch"
    /\ i > Len(tickers)
    /\ ConcatRaises(all_data)
    /\ pc' = "error"
    /\ err' = "concat"
    /\ UNCHANGED <<tickers, provider, i, calls, all_data, df, j, traces,
                   summary_df, bar, shown>>

\* for ticker in tickers: fig.add_trace(go.Scatter(...), row=1, col=1)
AddTrace ==
    /\ pc = "trace"
    /\ j <= Len(tickers)
    /\ traces' = traces \o TraceFor(df[1], tickers[j])
    /\ j' = j + 1
    /\ UNCHANGED <<tickers, provider, pc, i, calls, all_data, df,
                   summary_df, bar, shown, err>>

\* summary_df = df.groupby('Ticker').agg(...); Overall_Pct_Change;
\* reset_index
Summarise ==
    /\ pc = "trace"
    /\ j > Len(tickers)
    /\ summary_df' = Summary(df[1])
    /\ pc' = "bar"
    /\ UNCHANGED <<tickers, provider, i, calls, all_data, df, j, traces,
                   bar, shown, err>>

\* fig.add_trace(go.Bar(...), row=1, col=2)
AddBar ==
    /\ pc = "bar"
    /\ bar' = <<Bar(summary_df)>>
    /\ pc' = "show"
    /\ UNCHANGED <<tickers, provider, i, calls, all_data, df, j, traces,
                   summary_df, shown, err>>

\* fig.update_layout(...); fig.show()
Show ==
    /\ pc = "show"
    /\ shown' = TRUE
    /\ pc' = "done"
    /\ UNCHANGED <<tickers, provider, i, calls, all_data, df, j, traces,
                   summary_df, bar, err>>

Next ==
    \/ FetchOk
    \/ FetchRaise
    \/ ConcatOk
    \/ ConcatRaise
    \/ AddTrace
    \/ Summarise
    \/ AddBar
    \/ Show

Spec == Init /\ [][Next]_vars

\* ------------------------------------------------------------------------
\* Vocabulary of the properties
\* ------------------------------------------------------------------------
Requested(s) == \E k \in 1..Len(tickers) : tickers[k] = s

Requests(s) == Cardinality({k \in 1..Len(tickers) : tickers[k] = s})

\* rows of ticker s that survive the drop of the first interval
Usable(s) == Max(Len(provider[s]) - 1, 0)

Yields(s) == Len(provider[s]) >= 2

RECURSIVE Offset(_)
Offset(k) == IF k <= 1 THEN 0 ELSE Offset(k - 1) + Usable(tickers[k - 1])

Positions(table, s) == {p \in 1..Len(table) : table[p].Ticker = s}

\* f is the fraction (c1 - c0) / c0 * 100
IsPctOf(f, c0, c1) == f.d > 0 /\ f.n * c0 = (c1 - c0) * 100 * f.d

LoopDone == pc \in {"bar", "show", "done"}

Running == pc \notin {"done", "error"}

\* all tickers fetched, run not yet over
FetchLoopOver == Running /\ i > Len(tickers)

Thm_C2_PctChange ==
    /\ \A k \in 1..Len(all_data) : \A t \in 1..Len(all_data[k]) :
          LET raw == provider[tickers[k]]
          IN  IsPctOf(all_data[k][t].Pct_Change,
                      raw[t].Close, raw[t + 1].Close)
    /\ df # <<>> => \A p \in 1..Len(df[1]) :
          LET row == df[1][p]
              raw == provider[row.Ticker]
              u == CHOOSE u \in 2..Len(raw) : raw[u].Date = row.Date
          IN  IsPctOf(row.Pct_Change, raw[u - 1].Close, row.Close)

\* a block boundary where the previous ticker's last close differs from the
\* row's own predecessor, and the change is not zero
Wit_C2_PctChange ==
    /\ df # <<>>
    /\ \E p \in 2..Len(df[1]) :
          LET row == df[1][p]
              raw == provider[row.Ticker]
          IN  /\ df[1][p - 1].Ticker # row.Ticker
              /\ row.Date = 2
              /\ df[1][p - 1].Close # raw[1].Close
              /\ row.Pct_Change.n # 0

Thm_C4_Summary ==
    LoopDone =>
        \A s \in Symbols : (Requested(s) /\ Yields(s)) =>
            LET raw == provider[s]
                pos == Positions(df[1], s)
                first == CHOOSE p \in pos : \A q \in pos : p <= q
                last == CHOOSE p \in pos : \A q \in pos : q <= p
                G == {g \in 1..Len(summary_df) : summary_df[g].Ticker = s}
            IN  /\ Cardinality(G) = 1
                /\ \A g \in G :
                      /\ summary_df[g].Start_Price = df[1][first].Close
                      /\ summary_df[g].Start_Price = raw[2].Close
                      /\ summary_df[g].End_Price = df[1][last].Close
                      /\ summary_df[g].End_Price = raw[Len(raw)].Close
                      /\ IsPctOf(summary_df[g].Overall_Pct_Change,
                                 raw[2].Close, raw[Len(raw)].Close)

\* closes like [100, 110, 99]: raw first # post-drop first # last, for a
\* ticker that is not the first block of the combined table
Wit_C4_Summary ==
    /\ pc = "done"
    /\ \E g \in 1..Len(summary_df) :
          LET s == summary_df[g].Ticker
              raw == provider[s]
          IN  /\ Len(raw) = 3
              /\ raw[1].Close # raw[2].Close
              /\ raw[2].Close # raw[3].Close
              /\ df[1][1].Ticker # s
              /\ df[1][1].Close # raw[2].Close
              /\ summary_df[g].Overall_Pct_Change.n < 0

\* ------------------------------------------------------------------------
\* The pipeline as a function of the request, for comparing two requests
\* ------------------------------------------------------------------------
Without(ts, e) == SelectSeq(ts, LAMBDA s : s # e)

TableOf(ts) ==
    FlattenFrom([k \in 1..Len(ts) |-> Frame(provider[ts[k]], ts[k])], 1)

TracesOf(ts) ==
    FlattenFrom([k \in 1..Len(ts) |-> <<Scatter(RowsOf(TableOf(ts), ts[k]),
                                                ts[k])>>], 1)

BarOf(ts) == Bar(Summary(TableOf(ts)))

SomeEmptySomeNot ==
    /\ \E k \in 1..Len(tickers) : ~Yields(tickers[k])
    /\ \E k \in 1..Len(tickers) : Yields(tickers[k])

AllSeriesEmpty ==
    /\ tickers # <<>>
    /\ \A k \in 1..Len(tickers) : provider[tickers[k]] = <<>>

\* ------------------------------------------------------------------------
\* C5: if a requested ticker yields zero usable rows (series of length 0
\* or 1) while another ticker yields rows, the concatenation does not fail,
\* once the tickers are fetched (only a provider failure can stop that) the
\* run always has a next step until the display step is done, and the line
\* series and the bars of the other tickers are those of the same request
\* without the empty ticker.
\* ------------------------------------------------------------------------
Thm_C5_EmptyTickerResilience ==
    SomeEmptySomeNot =>
        /\ err # "concat"
        /\ pc = "error" => err = "provider"
        /\ FetchLoopOver => ENABLED Next
        /\ pc = "done" =>
              /\ shown
              /\ \A e \in Symbols : (Requested(e) /\ ~Yields(e)) =>
                    /\ SelectSeq(traces, LAMBDA tr : tr.name # e) =
                           TracesOf(Without(tickers, e))
                    /\ bar[1] = BarOf(Without(tickers, e))

Wit_C5_EmptyTickerResilience ==
    /\ pc = "done"
    /\ shown
    /\ ~Yields(tickers[1])
    /\ \E k \in 2..Len(tickers) : Len(provider[tickers[k]]) = 3
    /\ Len(traces) = Len(tickers)
    /\ bar[1].x # <<>>

\* ------------------------------------------------------------------------
\* C6: the provider is called once per requested ticker, one at a time, in
\* request order, and every call precedes the first trace.  If a call
\* fails, the run is over: the failing ticker is the last one called (no
\* retry, no later ticker fetched), no combined table, trace or bar exists,
\* the display step is never reached and no further step is possible.
\* ------------------------------------------------------------------------
Thm_C6_FailFastSequentialFetch ==
    /\ Len(calls) <= Len(tickers)
    /\ \A k \in 1..Len(calls) : calls[k] = tickers[k]
    /\ (traces # <<>> \/ df # <<>> \/ shown) =>
          (calls = tickers /\ err = "none")
    /\ pc = "done" => (shown /\ calls = tickers /\ err = "none")
    /\ err = "provider" =>
          /\ pc = "error"
          /\ Len(calls) = i
          /\ Len(all_data) = i - 1
          /\ df = <<>> /\ traces = <<>> /\ summary_df = <<>> /\ bar = <<>>
          /\ ~shown
    /\ pc = "error" => ~ENABLED Next

\* the second of three fetches failed
Wit_C6_FailFastSequentialFetch ==
    /\ err = "provider"
    /\ pc = "error"
    /\ Len(calls) = 2
    /\ Len(tickers) = 3

\* ------------------------------------------------------------------------
\* C7 as stated: a requested ticker that yields no rows has no line series
\* and no bar; every ticker that yields rows has exactly one line series
\* and exactly one bar.
\* ------------------------------------------------------------------------
Orig_C7_NoTraceForEmptyTicker ==
    /\ \A m \in 1..Len(traces) : Yields(traces[m].name)
    /\ bar # <<>> =>
          \A b \in 1..Len(bar[1].x) : Yields(bar[1].x[b])
    /\ pc = "done" =>
          \A s \in Symbols : (Requested(s) /\ Yields(s)) =>
              /\ Cardinality({m \in 1..Len(traces) :
                                 traces[m].name = s}) = 1
              /\ Cardinality({b \in 1..Len(bar[1].x) :
                                 bar[1].x[b] = s}) = 1

\* ------------------------------------------------------------------------
\* C7 amended: one line series is added per requested ticker, in request
\* order, also for a ticker that yields no rows (its series has no points,
\* a ticker with rows has a series with points); the bar panel has no bar
\* for a ticker without rows and exactly one bar for each requested ticker
\* with rows.
\* ------------------------------------------------------------------------
Thm_C7_TracePerRequestBarPerGroup ==
    /\ LoopDone =>
          /\ Len(traces) = Len(tickers)
          /\ \A k \in 1..Len(tickers) :
                /\ traces[k].name = tickers[k]
                /\ (traces[k].x = <<>>) <=> ~Yields(tickers[k])
                /\ Len(traces[k].y) = Len(traces[k].x)
                /\ Len(traces[k].customdata) = Len(traces[k].x)
    /\ bar # <<>> =>
          \A s \in Symbols :
              Cardinality({b \in 1..Len(bar[1].x) : bar[1].x[b] = s}) =
                  IF Requested(s) /\ Yields(s) THEN 1 ELSE 0

Wit_C7_TracePerRequestBarPerGroup ==
    /\ pc = "done"
    /\ \E k \in 1..Len(tickers) :
          ~Yields(tickers[k]) /\ traces[k].name = tickers[k]
                              /\ traces[k].x = <<>>
    /\ \E k \in 1..Len(tickers) : Yields(tickers[k]) /\ traces[k].x # <<>>
    /\ Len(bar[1].x) = 1

\* ------------------------------------------------------------------------
\* C8 as stated: when the provider returns an empty series for every
\* ticker of a non-empty request, the concatenation fails and the run ends
\* with an error without reaching the steps after get_stock_data.
\* ------------------------------------------------------------------------
Orig_C8_AllEmptyConcatFails ==
    AllSeriesEmpty =>
        /\ pc \in {"fetch", "error"}
        /\ ~shown

\* ------------------------------------------------------------------------
\* C8 amended: when the provider returns an empty series for every ticker
\* of a non-empty request, the concatenation succeeds with an empty
\* combined table and the run goes on to the display step with one
\* point-less line series per requested ticker and an empty bar series;
\* the concatenation fails only for an empty ticker list.
\* ------------------------------------------------------------------------
Thm_C8_AllEmptyStillDisplays ==
    /\ err = "concat" => (tickers = <<>> /\ pc = "error" /\ ~shown)
    /\ AllSeriesEmpty =>
          /\ err # "concat"
          /\ FetchLoopOver => ENABLED Next
          /\ df # <<>> => df[1] = <<>>
          /\ \A m \in 1..Len(traces) : traces[m].x = <<>>
          /\ LoopDone => (Len(traces) = Len(tickers) /\ summary_df = <<>>)
          /\ bar # <<>> => bar[1].x = <<>>
          /\ pc = "done" => (shown /\ bar # <<>>)

Wit_C8_AllEmptyStillDisplays ==
    /\ AllSeriesEmpty
    /\ Len(tickers) >= 2
    /\ pc = "done"
    /\ shown
    /\ df = << <<>> >>

\* ------------------------------------------------------------------------
\* C9 as stated: the bars are in first-seen order of the tickers in the
\* combined table, i.e. in request order of the tickers that have rows.
\* ------------------------------------------------------------------------
FirstRequest(s) == CHOOSE k \in 1..Len(tickers) :
                       tickers[k] = s /\ \A m \in 1..(k - 1) : tickers[m] # s

Orig_C9_BarsInFirstSeenOrder ==
    bar # <<>> =>
        \A p, q \in 1..Len(bar[1].x) :
            p < q => FirstRequest(bar[1].x[p]) < FirstRequest(bar[1].x[q])

\* ------------------------------------------------------------------------
\* C9 amended: the bar series lists tickers in the order the summary
\* grouping yields, and that order is the ascending sorted order of the
\* ticker symbols that have rows (each once), whatever the request order.
\* ------------------------------------------------------------------------
Thm_C9_BarsInSortedOrder ==
    bar # <<>> =>
        /\ bar[1].x = [g \in 1..Len(summary_df) |-> summary_df[g].Ticker]
        /\ \A p, q \in 1..Len(bar[1].x) :
              p < q => Rank(bar[1].x[p]) < Rank(bar[1].x[q])
        /\ {bar[1].x[b] : b \in 1..Len(bar[1].x)} =
               {s \in Symbols : Requested(s) /\ Yields(s)}

\* a request that is not sorted, both tickers with rows
Wit_C9_BarsInSortedOrder ==
    /\ pc = "done"
    /\ Len(bar[1].x) = 2
    /\ Rank(tickers[1]) > Rank(tickers[2])
    /\ Yields(tickers[1])
    /\ Yields(tickers[2])

\* ------------------------------------------------------------------------
\* C10: for every requested ticker list, also one that names a ticker more
\* than once, each line series has strictly increasing dates, holds exactly
\* the surviving rows of its own ticker, each once, and the (open, close)
\* payload and the pct_change of a point come from the row of its date.
\* ------------------------------------------------------------------------
Orig_C10_TraceIsOwnSeries ==
    \A m \in 1..Len(traces) :
        LET tr == traces[m]
            raw == provider[tr.name]
        IN  /\ Len(tr.x) = Usable(tr.name)
            /\ \A t \in 1..(Len(tr.x) - 1) : tr.x[t] < tr.x[t + 1]
            /\ \A t \in 1..Len(tr.x) :
                  \E u \in 2..Len(raw) :
                      /\ tr.x[t] = raw[u].Date
                      /\ tr.customdata[t] = <<raw[u].Open, raw[u].Close>>
                      /\ IsPctOf(tr.y[t], raw[u - 1].Close, raw[u].Close)

====
